---------------------------- MODULE Spec2Model ----------------------------
(***************************************************************************)
(* A model of capytaine/io/mesh_loaders.py: the dispatcher load_mesh, the  *)
(* format registry extension_dict and the text decoders.                   *)
(*                                                                         *)
(* A path is a sequence of atoms: "/" and "." are atoms of their own, any  *)
(* other atom is a non-empty run of characters holding neither.  A text    *)
(* file is a sequence of lines, a line a sequence of tokens, a token a     *)
(* record [k |-> "i" | "r" | "w", v |-> Nat]: an unsigned integer literal, *)
(* a real literal (with a decimal point) or any other word.                *)
(*                                                                         *)
(* The external constructors Mesh and ReflectionSymmetricMesh are not part *)
(* of the file: a decoder's result is the record of what it hands to them. *)
(***************************************************************************)
EXTENDS Integers, Sequences, FiniteSets, TLC

VARIABLES
    call,      \* the arguments of the call in progress (or "idle")
    result,    \* what the call returned or raised (Running before that)
    invoked,   \* the decoders the dispatcher has invoked in this call
    origin,    \* history: per returned face, the number of vertex ids on the
               \* source row it was decoded from (<<>> when not recorded)
    pc,        \* where a decoder that runs step by step stands
    frame      \* the local variables of that decoder

vars == <<call, result, invoked, origin, pc, frame>>

None == "None"

(***************************************************************************)
(* Generic helpers on sequences.                                           *)
(***************************************************************************)
RECURSIVE Join(_)
Join(atoms) == IF atoms = <<>> THEN "" ELSE Head(atoms) \o Join(Tail(atoms))

\* The largest index of seq holding x, 0 when there is none (str.rfind).
rfind(seq, x) ==
    LET hits == {i \in 1..Len(seq) : seq[i] = x}
    IN  IF hits = {} THEN 0 ELSE CHOOSE i \in hits : \A j \in hits : j <= i

(***************************************************************************)
(* The file system seen by os.path.isfile and open.                        *)
(***************************************************************************)
\* Every key of extension_dict, in the order of the source.
RegistryKeys ==
    {"dat", "mar", "nemoh", "wamit", "gdf", "diodore-inp", "inp",
     "diodore-dat", "hydrostar", "hst", "natural", "nat", "gmsh", "msh",
     "rad", "radioss", "stl", "vtu", "vtp", "paraview-legacy", "vtk",
     "tecplot", "tec", "med", "salome", "vrml", "wrl", "nem", "nemoh_mesh"}

\* Keywords that are no key: other letter case, unknown, empty.
OtherKeywords == {"GDF", "Gdf", "Wamit", "NAT", "foo", "gdf2", ""}

Keywords == RegistryKeys \cup OtherKeywords

\* Paths with an extension, and paths where splitext finds none.
ExistingStems == {<<"mesh">>, <<"dir.d", "/", "mesh">>}
MissingStems  == {<<"nonexistent">>, <<"/", "nonexistent">>}
Directories   == {<<"dir.d">>, <<"data", ".", "gdf">>}

WithExt(stem) == {stem \o <<".", kw>> : kw \in Keywords \ {""}}

OddPaths(stem) ==
    { stem,                                   \* no extension
      stem \o <<".">>,                        \* a trailing dot
      stem \o <<".", "tar", ".", "gdf">>,     \* two extensions
      <<".", "gdf">>,                         \* a leading dot only
      <<".", ".", "gdf">>,
      <<"dir", ".", "gdf", "/">> \o stem }    \* a dot in a directory name

ExistingFiles == UNION {WithExt(s) \cup OddPaths(s) : s \in ExistingStems}
MissingFiles  == UNION {WithExt(s) \cup {s} : s \in MissingStems}

Paths == ExistingFiles \cup MissingFiles \cup Directories

isfile(filename) == filename \in ExistingFiles

(***************************************************************************)
(* os.path.splitext and str.strip('.').                                    *)
(***************************************************************************)
\* genericpath._splitext: the extension starts at the last dot of the last
\* path component, unless only dots precede it in that component.
splitext(p) ==
    LET sepIndex == rfind(p, "/")
        dotIndex == rfind(p, ".")
    IN  IF /\ dotIndex > sepIndex
           /\ \E i \in (sepIndex + 1)..(dotIndex - 1) : p[i] # "."
        THEN <<SubSeq(p, 1, dotIndex - 1), SubSeq(p, dotIndex, Len(p))>>
        ELSE <<p, <<>>>>

\* str.strip('.'): the dots at both ends are removed.
RECURSIVE lstrip(_)
lstrip(s) == IF s # <<>> /\ Head(s) = "." THEN lstrip(Tail(s)) ELSE s

RECURSIVE rstrip(_)
rstrip(s) ==
    IF s # <<>> /\ s[Len(s)] = "." THEN rstrip(SubSeq(s, 1, Len(s) - 1)) ELSE s

strip(s) == rstrip(lstrip(s))

(***************************************************************************)
(* The format registry.                                                    *)
(***************************************************************************)
\* The registry with the alias "wamit" bound to another decoder.
extension_dict_wamitMAR ==
    [kw \in RegistryKeys |->
        CASE kw \in {"dat", "mar", "nemoh", "wamit"} -> "load_MAR"
          [] kw = "gdf"                             -> "load_GDF"
          [] kw \in {"diodore-inp", "inp"}          -> "load_INP"
          [] kw = "diodore-dat"                     -> "load_DAT"
          [] kw \in {"hydrostar", "hst"}            -> "load_HST"
          [] kw \in {"natural", "nat"}              -> "load_NAT"
          [] kw \in {"gmsh", "msh"}                 -> "load_MSH"
          [] kw \in {"rad", "radioss"}              -> "load_RAD"
          [] kw = "stl"                             -> "load_STL"
          [] kw = "vtu"                             -> "load_VTU"
          [] kw = "vtp"                             -> "load_VTP"
          [] kw \in {"paraview-legacy", "vtk"}      -> "load_VTK"
          [] kw \in {"tecplot", "tec"}              -> "load_TEC"
          [] kw \in {"med", "salome"}               -> "load_MED"
          [] kw \in {"vrml", "wrl"}                 -> "load_WRL"
          [] kw \in {"nem", "nemoh_mesh"}           -> "load_NEM"]

extension_dict ==
    [kw \in RegistryKeys |->
        CASE kw \in {"dat", "mar", "nemoh"}         -> "load_MAR"
          [] kw \in {"wamit", "gdf"}                -> "load_GDF"
          [] kw \in {"diodore-inp", "inp"}          -> "load_INP"
          [] kw = "diodore-dat"                     -> "load_DAT"
          [] kw \in {"hydrostar", "hst"}            -> "load_HST"
          [] kw \in {"natural", "nat"}              -> "load_NAT"
          [] kw \in {"gmsh", "msh"}                 -> "load_MSH"
          [] kw \in {"rad", "radioss"}              -> "load_RAD"
          [] kw = "stl"                             -> "load_STL"
          [] kw = "vtu"                             -> "load_VTU"
          [] kw = "vtp"                             -> "load_VTP"
          [] kw \in {"paraview-legacy", "vtk"}      -> "load_VTK"
          [] kw \in {"tecplot", "tec"}              -> "load_TEC"
          [] kw \in {"med", "salome"}               -> "load_MED"
          [] kw \in {"vrml", "wrl"}                 -> "load_WRL"
          [] kw \in {"nem", "nemoh_mesh"}           -> "load_NEM"]


(***************************************************************************)
(* The dispatcher.                                                         *)
(***************************************************************************)
Raised(exc, msg) == [status |-> "raised", exc |-> exc, msg |-> msg]
Returned(value)  == [status |-> "returned", value |-> value]

Running          == [status |-> "none"]
Passed           == [status |-> "passed"]

\* _check_file: the IOError it raises, or Passed when it returns.
check_file(filename) ==
    IF ~ isfile(filename)
    THEN Raised("IOError", "file " \o Join(filename) \o " not found")
    ELSE Passed

\* loader(filename, name): the decoders are deterministic functions of the
\* file at filename and of name.
RunLoader(loader, filename, name) ==
    Returned([decoder |-> loader, filename |-> Join(filename), name |-> name])

\* str.lower on the keywords of the model.
lower(kw) ==
    CASE kw \in {"GDF", "Gdf"} -> "gdf"
      [] kw = "Wamit"          -> "wamit"
      [] kw = "NAT"            -> "nat"
      [] OTHER                 -> kw

\* load_mesh resolving the format before it looks at the file.
load_mesh_formatFirst(filename, file_format, name) ==
    LET fmt == IF file_format = None
               THEN Join(strip(splitext(filename)[2]))
               ELSE file_format
    IN  IF fmt \notin DOMAIN extension_dict
        THEN <<Raised("IOError", "Extension \"." \o fmt \o "\" is not known"), <<>>>>
        ELSE IF check_file(filename) # Passed
        THEN <<check_file(filename), <<>>>>
        ELSE <<RunLoader(extension_dict[fmt], filename, name), <<extension_dict[fmt]>>>>

\* load_mesh looking the keyword up whatever its letter case.
load_mesh_anyCase(filename, file_format, name) ==
    IF check_file(filename) # Passed
    THEN <<check_file(filename), <<>>>>
    ELSE LET fmt == IF file_format = None
                    THEN Join(strip(splitext(filename)[2]))
                    ELSE file_format
         IN  IF lower(fmt) \notin DOMAIN extension_dict
             THEN <<Raised("IOError", "Extension \"." \o fmt \o "\" is not known"), <<>>>>
             ELSE <<RunLoader(extension_dict[lower(fmt)], filename, name),
                    <<extension_dict[lower(fmt)]>>>>

\* load_mesh as a function: <<what it returns or raises, the decoders it
\* invoked>>.
load_mesh(filename, file_format, name) ==
    IF check_file(filename) # Passed
    THEN <<check_file(filename), <<>>>>
    ELSE LET fmt == IF file_format = None
                    THEN Join(strip(splitext(filename)[2]))
                    ELSE file_format
         IN  IF fmt \notin DOMAIN extension_dict
             THEN <<Raised("IOError", "Extension \"." \o fmt \o "\" is not known"), <<>>>>
             ELSE LET loader == extension_dict[fmt]
                  IN  <<RunLoader(loader, filename, name), <<loader>>>>

Idle == [op |-> "idle"]

\* No decoder is running step by step.
NoFrame == [none |-> TRUE]

InitDispatch ==
    /\ call = Idle
    /\ result = Running
    /\ invoked = <<>>
    /\ origin = <<>>
    /\ pc = "idle"
    /\ frame = NoFrame

Names == {None, "body"}

\* One call of load_mesh(filename, file_format, name).
LoadMesh ==
    /\ call = Idle
    /\ \E filename \in Paths, file_format \in Keywords \cup {None}, name \in Names :
          /\ call' = [op |-> "load_mesh", filename |-> filename,
                      file_format |-> file_format, name |-> name]
          /\ result' = load_mesh(filename, file_format, name)[1]
          /\ invoked' = load_mesh(filename, file_format, name)[2]
          /\ origin' = <<>>
    /\ UNCHANGED <<pc, frame>>

\* The caller takes what the call returned or raised; nothing is kept from
\* one call to the next.
Return ==
    /\ call # Idle
    /\ result # Running
    /\ call' = Idle
    /\ result' = Running
    /\ invoked' = <<>>
    /\ origin' = <<>>
    /\ pc' = "idle"
    /\ frame' = NoFrame

NextDispatch == LoadMesh \/ Return

SpecDispatch == InitDispatch /\ [][NextDispatch]_vars

(***************************************************************************)
(* Claims on the dispatcher (SpecDispatch).                                *)
(***************************************************************************)
FileNotFound(filename) ==
    Raised("IOError", "file " \o Join(filename) \o " not found")

UnsupportedFormat(kw) ==
    Raised("IOError", "Extension \"." \o kw \o "\" is not known")

\* C1: load_mesh on a path that is not an existing file raises the
\* file-not-found error whatever the format keyword is (omitted, registered
\* or unregistered), and no decoder is invoked.
C1_MissingFileBeforeFormat ==
    (call.op = "load_mesh" /\ call.filename \notin ExistingFiles) =>
        /\ result = FileNotFound(call.filename)
        /\ invoked = <<>>

\* The case of C1 where the other error was possible: a missing file and a
\* keyword that is no key of the registry.
C1_Witness ==
    /\ call.op = "load_mesh"
    /\ call.filename = <<"nonexistent", ".", "foo">>
    /\ call.file_format = "foo"
    /\ result = FileNotFound(call.filename)
    /\ invoked = <<>>

\* The keyword load_mesh resolves for a call: the explicit one, or the
\* extension of the path.
ResolvedKeyword(c) ==
    IF c.file_format = None
    THEN Join(strip(splitext(c.filename)[2]))
    ELSE c.file_format

\* C2: for an existing file, a resolved keyword that is not exactly a key of
\* the registry raises the unsupported-format error naming that keyword, and
\* no decoder is invoked; a keyword that differs from a key in letter case
\* only, and the extension foo of x.foo, are rejected that way.
C2_UnknownKeywordRejected ==
    (call.op = "load_mesh" /\ call.filename \in ExistingFiles) =>
        /\ ResolvedKeyword(call) \notin RegistryKeys =>
              /\ result = UnsupportedFormat(ResolvedKeyword(call))
              /\ invoked = <<>>
        /\ \A kw \in {"GDF", "Gdf", "Wamit", "NAT", "foo"} :
              (\/ call.file_format = kw
               \/ /\ call.file_format = None
                  /\ \E stem \in ExistingStems : call.filename = stem \o <<".", kw>>)
              => /\ result = UnsupportedFormat(kw)
                 /\ invoked = <<>>

\* The case of C2 with a key in another letter case, inferred from the path.
C2_Witness ==
    /\ call.op = "load_mesh"
    /\ call.filename = <<"mesh", ".", "GDF">>
    /\ call.file_format = None
    /\ result = UnsupportedFormat("GDF")

\* The pairs of keywords the registry binds to one decoder.
AliasPairs ==
    { <<"gdf", "wamit">>, <<"mar", "dat">>, <<"mar", "nemoh">>, <<"dat", "nemoh">>,
      <<"hst", "hydrostar">>, <<"nat", "natural">>, <<"msh", "gmsh">>,
      <<"rad", "radioss">>, <<"tec", "tecplot">>, <<"nem", "nemoh_mesh">>,
      <<"inp", "diodore-inp">> }

SymmetricAliasPairs == AliasPairs \cup {<<pr[2], pr[1]>> : pr \in AliasPairs}

\* C3: without a format keyword the decoder is the one registered for the
\* extension of the path (dot stripped, case kept); with one, it is the one
\* registered for the keyword, whatever the extension; and for each pair of
\* aliases, loading one file by inference and by the alias invokes the same
\* decoder and gives the same output.
C3_InferenceAndAliases ==
    (call.op = "load_mesh" /\ call.filename \in ExistingFiles) =>
        /\ \A stem \in ExistingStems, kw \in RegistryKeys :
              (call.file_format = None /\ call.filename = stem \o <<".", kw>>)
              => /\ invoked = <<extension_dict[kw]>>
                 /\ result.status = "returned"
                 /\ result.value.decoder = extension_dict[kw]
        /\ \A stem \in ExistingStems, kw \in RegistryKeys :
              (call.file_format = kw /\ kw \in RegistryKeys)
              => <<result, invoked>> =
                     <<Returned([decoder |-> load_mesh(stem \o <<".", kw>>, None, call.name)[2][1],
                                 filename |-> Join(call.filename), name |-> call.name]),
                       load_mesh(stem \o <<".", kw>>, None, call.name)[2]>>
        /\ \A stem \in ExistingStems, pr \in SymmetricAliasPairs :
              (call.file_format = None /\ call.filename = stem \o <<".", pr[1]>>)
              => /\ invoked # <<>>
                 /\ load_mesh(call.filename, pr[2], call.name) = <<result, invoked>>

\* The case of C3: mesh.gdf loaded by inference, and the alias wamit gives
\* the same.
C3_Witness ==
    /\ call.op = "load_mesh"
    /\ call.filename = <<"mesh", ".", "gdf">>
    /\ call.file_format = None
    /\ invoked = <<"load_GDF">>
    /\ load_mesh(call.filename, "wamit", call.name) = <<result, invoked>>

(***************************************************************************)
(* Text files, tokens and the numpy/Python primitives the decoders use.    *)
(***************************************************************************)
I(n) == [k |-> "i", v |-> n]     \* an unsigned integer literal
R(n) == [k |-> "r", v |-> n]     \* a real literal, with a decimal point
W(n) == [k |-> "w", v |-> n]     \* any other word, n tells words apart

\* int(token) and float(token) raise ValueError unless:
CanInt(t)   == t.k = "i"
CanFloat(t) == t.k \in {"i", "r"}

AllInt(line)   == \A j \in 1..Len(line) : CanInt(line[j])
AllFloat(line) == \A j \in 1..Len(line) : CanFloat(line[j])

\* list(map(int, tokens)) or list(map(float, tokens)), once they convert.
Values(line) == [j \in 1..Len(line) |-> line[j].v]

\* np.array(rows, dtype=...) raises ValueError on rows of unequal lengths.
Rectangular(rows) ==
    \A i, j \in 1..Len(rows) : Len(rows[i]) = Len(rows[j])

\* array - 1
Minus1(rows) ==
    [i \in 1..Len(rows) |-> [j \in 1..Len(rows[i]) |-> rows[i][j] - 1]]

\* file.readline(): the i-th line, the empty string after the last one.
readline(data, i) == IF i <= Len(data) THEN data[i] ELSE <<>>

\* Mesh(vertices, faces, name), the external constructor.
Mesh(vertices, faces, name) ==
    [cls |-> "Mesh", vertices |-> vertices, faces |-> faces, name |-> name]

\* The sequences of at most n elements of S.
SeqsUpTo(S, n) == UNION {[1..m -> S] : m \in 0..n}

\* The concatenation of a sequence of sequences.
RECURSIVE Flatten(_)
Flatten(seqs) == IF seqs = <<>> THEN <<>> ELSE Head(seqs) \o Flatten(Tail(seqs))

(***************************************************************************)
(* load_NAT and load_NEM: counts, then that many rows read ahead.          *)
(***************************************************************************)
\* The rows a counted loop of readline() collects: n lines after line `at`.
ReadAhead(data, at, n) == [i \in 1..n |-> readline(data, at + i)]

\* The tables built from nv vertex rows and nf face rows read after line
\* `at`, as both decoders build them.
CountedTables(data, at, nv, nf, name) ==
    LET vlines == ReadAhead(data, at, nv)
        flines == ReadAhead(data, at + nv, nf)
    IN  IF \E i \in 1..nv : ~ AllFloat(vlines[i])
        THEN Raised("ValueError", "could not convert string to float")
        ELSE IF ~ Rectangular(vlines)
        THEN Raised("ValueError", "setting an array element with a sequence")
        ELSE IF \E i \in 1..nf : ~ AllInt(flines[i])
        THEN Raised("ValueError", "invalid literal for int()")
        ELSE IF ~ Rectangular(flines)
        THEN Raised("ValueError", "setting an array element with a sequence")
        ELSE Returned(Mesh([i \in 1..nv |-> Values(vlines[i])],
                           Minus1([i \in 1..nf |-> Values(flines[i])]), name))

load_NAT(data, name) ==
    LET counts == readline(data, 2)
    IN  IF ~ AllInt(counts)
        THEN Raised("ValueError", "invalid literal for int()")
        ELSE IF Len(counts) # 2
        THEN Raised("ValueError", "values to unpack")
        ELSE CountedTables(data, 2, counts[1].v, counts[2].v, name)

load_NEM(data, name) ==
    LET l1 == readline(data, 1)
        l2 == readline(data, 2)
    IN  IF Len(l1) # 1 \/ ~ AllInt(l1) \/ Len(l2) # 1 \/ ~ AllInt(l2)
        THEN Raised("ValueError", "invalid literal for int()")
        ELSE CountedTables(data, 2, l1[1].v, l2[1].v, name)

(***************************************************************************)
(* load_TEC: one zone header carrying the counts, a block of reals and a   *)
(* block of integers, each reshaped by the counts.                         *)
(***************************************************************************)
\* The line "ZONE ... N=nv, E=nf, F=FEPOINT, ET=QUADRILATERAL" is the line
\* <<ZoneTag, I(nv), I(nf)>>.
ZoneTag == W(5)

IsZoneLine(line) ==
    Len(line) = 3 /\ line[1] = ZoneTag /\ CanInt(line[2]) /\ CanInt(line[3])

IsRealLine(line) == Len(line) > 0 /\ \A j \in 1..Len(line) : line[j].k = "r"
IsIntLine(line)  == Len(line) > 0 /\ AllInt(line)

\* The number of lines from line `at` on that are all lines of reals
\* (kind "r") or all lines of integers (kind "i").
RunLength(data, at, kind) ==
    LET ends == {e \in (at - 1)..Len(data) :
                    \A i \in at..e : IF kind = "r" THEN IsRealLine(data[i])
                                                   ELSE IsIntLine(data[i])}
    IN  (CHOOSE e \in ends : \A x \in ends : x <= e) - (at - 1)

\* ndarray.reshape((rows, width)) of a flat list of rows * width values.
Reshape(flat, rows, width) ==
    [i \in 1..rows |-> [j \in 1..width |-> flat[(i - 1) * width + j]]]

\* array[:, :3]
FirstColumns(rows, n) ==
    [i \in 1..Len(rows) |->
        SubSeq(rows[i], 1, IF Len(rows[i]) < n THEN Len(rows[i]) ELSE n)]

load_TEC(data, name) ==
    LET zones == {h \in 1..Len(data) :
                     /\ IsZoneLine(data[h])
                     /\ Len(Flatten(SubSeq(data, h + 1,
                                h + RunLength(data, h + 1, "r")))) >= 3}
    IN  IF zones = {}
        THEN Raised("AttributeError", "'NoneType' object has no attribute 'groups'")
        ELSE
        LET h  == CHOOSE z \in zones : \A y \in zones : z <= y
            nv == data[h][2].v
            nf == data[h][3].v
            nr == RunLength(data, h + 1, "r")
            ni == RunLength(data, h + 1 + nr, "i")
            vertices == Values(Flatten(SubSeq(data, h + 1, h + nr)))
            faces    == Values(Flatten(SubSeq(data, h + nr + 1, h + nr + ni)))
        IN  IF nv = 0 \/ Len(vertices) % nv # 0
            THEN Raised("ValueError", "cannot reshape array")
            ELSE IF Len(faces) # nf * 4
            THEN Raised("ValueError", "cannot reshape array")
            ELSE Returned(Mesh(
                    FirstColumns(Reshape(vertices, nv, Len(vertices) \div nv), 3),
                    Minus1(Reshape(faces, nf, 4)), name))

(***************************************************************************)
(* load_MSH: the $Nodes and $Elements blocks of a GMSH file.               *)
(***************************************************************************)
NodesTag       == W(1)     \* $Nodes
EndNodesTag    == W(2)     \* $EndNodes
ElementsTag    == W(3)     \* $Elements
EndElementsTag == W(4)     \* $EndElements

\* re.search(r'\$Tag\n(\d+)\n(.+)\$EndTag', data, re.DOTALL): <<the line of
\* the first opening tag that is followed by a count line and, after at
\* least one more line, by a closing tag; the line of the last closing
\* tag>>, or <<0, 0>> when the pattern is not found.
SearchBlock(data, open, close) ==
    LET starts == {i \in 1..Len(data) :
                      /\ data[i] = <<open>>
                      /\ i + 1 <= Len(data)
                      /\ Len(data[i + 1]) = 1 /\ CanInt(data[i + 1][1])
                      /\ \E j \in (i + 3)..Len(data) : data[j] = <<close>>}
    IN  IF starts = {} THEN <<0, 0>>
        ELSE LET i == CHOOSE x \in starts : \A y \in starts : x <= y
                 ends == {j \in (i + 3)..Len(data) : data[j] = <<close>>}
             IN  <<i, CHOOSE x \in ends : \A y \in ends : y <= x>>

\* seq[-n:]
LastN(seq, n) == SubSeq(seq, IF Len(seq) > n THEN Len(seq) - n + 1 ELSE 1, Len(seq))

\* r'(^\d+\s2(?:\s\d+)+?$)' and r'(^\d+\s3(?:\s\d+)+?$)': a line of integers
\* whose second one is the element type, with something after it.
IsEltOfType(line, type) ==
    Len(line) >= 3 /\ AllInt(line) /\ line[2].v = type

IsTriElt(line)  == IsEltOfType(line, 2)
IsQuadElt(line) == IsEltOfType(line, 3)

\* The triangle row built from a type-2 line: its last three ids, then the
\* first of them again.
TriangleRow(line) == Append(LastN(Values(line), 3), LastN(Values(line), 3)[1])

QuadrangleRow(line) == LastN(Values(line), 4)

\* The rows when every element line is taken for a face, four ids wide.
MSHFaces_everyElement(elts) ==
    [i \in 1..Len(elts) |-> LastN(Values(elts[i]), 4)]

\* The rows load_MSH collects from the element lines: triangles, then
\* quadrangles.
MSHFaces(elts) ==
    LET tris  == SelectSeq(elts, IsTriElt)
        quads == SelectSeq(elts, IsQuadElt)
    IN  [i \in 1..Len(tris) |-> TriangleRow(tris[i])]
        \o [i \in 1..Len(quads) |-> QuadrangleRow(quads[i])]

MSHOrigins(elts) ==
    [i \in 1..Len(SelectSeq(elts, IsTriElt)) |-> 3]
    \o [i \in 1..Len(SelectSeq(elts, IsQuadElt)) |-> 4]

load_MSH(data, name) ==
    LET nodes == SearchBlock(data, NodesTag, EndNodesTag)
        elts  == SearchBlock(data, ElementsTag, EndElementsTag)
    IN  IF nodes = <<0, 0>> \/ elts = <<0, 0>>
        THEN Raised("AttributeError", "'NoneType' object has no attribute 'groups'")
        ELSE
        LET nodes_data == Flatten(SubSeq(data, nodes[1] + 2, nodes[2] - 1))
            elts_data  == SubSeq(data, elts[1] + 2, elts[2] - 1)
            faces      == MSHFaces(elts_data)
        IN  IF ~ AllFloat(nodes_data)
            THEN Raised("ValueError", "could not convert string to float")
            ELSE IF Len(nodes_data) % 4 # 0
            THEN Raised("ValueError", "cannot reshape array")
            ELSE IF ~ Rectangular(faces)
            THEN Raised("ValueError", "setting an array element with a sequence")
            ELSE Returned(Mesh(
                    [i \in 1..(Len(nodes_data) \div 4) |->
                        Tail(Reshape(Values(nodes_data), Len(nodes_data) \div 4, 4)[i])],
                    Minus1(faces), name))

\* The source-row widths of the faces load_MSH returns.
MSH_origin(data) ==
    LET elts == SearchBlock(data, ElementsTag, EndElementsTag)
    IN  IF load_MSH(data, None).status # "returned" THEN <<>>
        ELSE MSHOrigins(SubSeq(data, elts[1] + 2, elts[2] - 1))

(***************************************************************************)
(* load_HST and load_RAD: node and element sections found by regular       *)
(* expressions over the whole text.                                        *)
(***************************************************************************)
\* node_line, r'\s*\d+(?:\s+real){3}': an integer and three reals.
IsNodeLine(line) ==
    /\ Len(line) = 4
    /\ line[1].k = "i"
    /\ \A j \in 2..4 : line[j].k = "r"

RECURSIVE TokenCount(_, _, _)
TokenCount(data, from, to) ==
    IF from > to THEN 0 ELSE Len(data[from]) + TokenCount(data, from + 1, to)

\* elem_line, r'^\s*(?:\d+\s+){w-1}\d+\s*[\r\n]+': w integers from the start
\* of a line to the end of a line.  \s matches a line break as well, so the
\* w integers may lie on several lines.  The number of lines matched from
\* line q, 0 when the pattern does not match there.
ElemLineSpan(data, q, w) ==
    LET spans == {c \in 1..(Len(data) - q + 1) :
                     /\ \A i \in q..(q + c - 1) : IsIntLine(data[i])
                     /\ TokenCount(data, q, q + c - 1) = w}
    IN  IF spans = {} THEN 0 ELSE CHOOSE c \in spans : \A d \in spans : c <= d

\* pattern_elem_section.findall(data): the maximal runs of consecutive
\* elem_line matches, each match as [ids |-> its w integers, first |-> the
\* number of integers on its first line].
RECURSIVE ElemSections(_, _, _, _, _)
ElemSections(data, q, w, run, done) ==
    IF q > Len(data)
    THEN IF run = <<>> THEN done ELSE Append(done, run)
    ELSE IF ElemLineSpan(data, q, w) > 0
    THEN ElemSections(data, q + ElemLineSpan(data, q, w), w,
            Append(run, [ids   |-> Values(Flatten(SubSeq(data, q,
                                      q + ElemLineSpan(data, q, w) - 1))),
                         first |-> Len(data[q])]),
            done)
    ELSE ElemSections(data, q + 1, w, <<>>,
            IF run = <<>> THEN done ELSE Append(done, run))

\* pattern_node_section.findall(data): the maximal runs of node lines.
RECURSIVE NodeSections(_, _, _, _)
NodeSections(data, q, run, done) ==
    IF q > Len(data)
    THEN IF run = <<>> THEN done ELSE Append(done, run)
    ELSE IF IsNodeLine(data[q])
    THEN NodeSections(data, q + 1, Append(run, data[q]), done)
    ELSE NodeSections(data, q + 1, <<>>,
            IF run = <<>> THEN done ELSE Append(done, run))

\* load_HST.  vertices_tmp and faces_tmp are lists only until the end of the
\* first section, where each becomes an array: a second section calls
\* append on an array.  Without a node section vertices stays the empty
\* list; without an element section faces stays the empty list and
\* faces - 1 is list - int.
load_HST(data, name) ==
    LET node_sections == NodeSections(data, 1, <<>>, <<>>)
        elem_sections == ElemSections(data, 1, 4, <<>>, <<>>)
    IN  IF Len(node_sections) > 1 \/ Len(elem_sections) > 1
        THEN Raised("AttributeError", "'numpy.ndarray' object has no attribute 'append'")
        ELSE IF elem_sections = <<>>
        THEN Raised("TypeError", "unsupported operand type(s) for -: 'list' and 'int'")
        ELSE Returned(Mesh(
                IF node_sections = <<>> THEN <<>>
                ELSE [i \in 1..Len(node_sections[1]) |->
                         Tail(Values(node_sections[1][i]))],
                Minus1([i \in 1..Len(elem_sections[1]) |-> elem_sections[1][i].ids]),
                name))

\* The source-row widths of the faces load_HST returns.
HST_origin(data) ==
    LET elem_sections == ElemSections(data, 1, 4, <<>>, <<>>)
    IN  IF load_HST(data, None).status # "returned" THEN <<>>
        ELSE [i \in 1..Len(elem_sections[1]) |-> elem_sections[1][i].first]

\* load_RAD: the first node section, and the first run of at least three
\* element lines of seven integers, whose last four are the face.
load_RAD(data, name) ==
    LET node_sections == NodeSections(data, 1, <<>>, <<>>)
        elem_sections == SelectSeq(ElemSections(data, 1, 7, <<>>, <<>>),
                                   LAMBDA sec : Len(sec) >= 3)
    IN  IF node_sections = <<>> \/ elem_sections = <<>>
        THEN Raised("AttributeError", "'NoneType' object has no attribute 'group'")
        ELSE Returned(Mesh(
                [i \in 1..Len(node_sections[1]) |-> Tail(Values(node_sections[1][i]))],
                Minus1([i \in 1..Len(elem_sections[1]) |->
                           SubSeq(elem_sections[1][i].ids, 4, 7)]),
                name))

(***************************************************************************)
(* The decoders called on files of bounded size (SpecDecode).              *)
(***************************************************************************)
MaxCount == 2      \* the largest count a header declares
MaxRows  == 3      \* the most rows in the body of a file

\* Rows of a natural-list or Nemoh-mesh-tool body: a vertex, a quadrangle,
\* a triangle (first id repeated), a row of three ids only.
CountedRows ==
    { <<R(10), R(11), R(12)>>, <<I(1), I(2), I(3), I(4)>>,
      <<I(1), I(2), I(3), I(1)>>, <<I(1), I(2), I(3)>> }

NATTexts ==
    { <<<<W(0)>>, counts>> \o body :
        counts \in {<<I(nv), I(nf)>> : nv \in 0..MaxCount, nf \in 0..MaxCount}
                   \cup {<<I(1)>>, <<R(1), I(1)>>},
        body \in SeqsUpTo(CountedRows, MaxRows) }

NEMTexts ==
    { l1 \o body :
        l1 \in {<<<<I(nv)>>, <<I(nf)>>>> : nv \in 0..MaxCount, nf \in 0..MaxCount}
               \cup {<<<<I(1), I(1)>>>>, <<<<I(1)>>, <<W(0)>>>>},
        body \in SeqsUpTo(CountedRows, MaxRows) }

\* Rows of a TECPLOT zone: vertices of three and of four columns, then
\* element rows of four and of three ids.
TECVertexRows  == { <<R(10), R(11), R(12)>>, <<R(20), R(21), R(22), R(23)>> }
TECElementRows == { <<I(1), I(2), I(3), I(4)>>, <<I(1), I(2), I(3)>> }

TECTexts ==
    { <<zone>> \o vrows \o frows :
        zone \in {<<ZoneTag, I(nv), I(nf)>> : nv \in 0..MaxCount, nf \in 0..MaxCount}
                 \cup {<<W(0)>>},
        vrows \in SeqsUpTo(TECVertexRows, MaxRows),
        frows \in SeqsUpTo(TECElementRows, MaxRows) }

\* Lines of a GMSH file: a node, and elements of type 15 (point), 1 (line),
\* 2 (triangle) and 3 (quadrangle), each with two tags.
MSHNodeRows == { <<I(1), R(10), R(11), R(12)>> }
MSHElementRows ==
    { <<I(1), I(15), I(2), I(0), I(1), I(7)>>,
      <<I(2), I(1), I(2), I(0), I(1), I(7), I(8)>>,
      <<I(3), I(2), I(2), I(0), I(1), I(5), I(6), I(7)>>,
      <<I(4), I(3), I(2), I(0), I(1), I(5), I(6), I(7), I(8)>> }

\* A block "$Tag, count, rows, $EndTag" for each count and rows, and <<>>
\* for a file without the block.
MSHBlocks(open, close, rows) ==
    { <<<<open>>, <<I(n)>>>> \o body \o <<<<close>>>> :
        n \in 0..MaxCount, body \in SeqsUpTo(rows, MaxRows) } \cup {<<>>}

MSHTexts ==
    { nodes \o elts :
        nodes \in MSHBlocks(NodesTag, EndNodesTag, MSHNodeRows),
        elts \in MSHBlocks(ElementsTag, EndElementsTag, MSHElementRows) }

MaxLines == 4      \* the most lines in a HydroSTAR or RADIOSS file

\* Lines of a HydroSTAR file: a node, a quadrangle, a triangle, a single
\* integer, a keyword.
HSTLines ==
    { <<I(1), R(10), R(11), R(12)>>, <<I(1), I(2), I(3), I(4)>>,
      <<I(5), I(6), I(7)>>, <<I(8)>>, <<W(0)>> }

HSTTexts == SeqsUpTo(HSTLines, MaxLines)

\* Lines of a RADIOSS file: a node, an element (three index columns, then
\* four ids), a keyword.
RADLines ==
    { <<I(1), R(10), R(11), R(12)>>,
      <<I(1), I(1), I(1), I(1), I(2), I(3), I(4)>>, <<W(0)>> }

RADTexts == SeqsUpTo(RADLines, MaxLines)

InitDecode ==
    /\ call = Idle
    /\ result = Running
    /\ invoked = <<>>
    /\ origin = <<>>
    /\ pc = "idle"
    /\ frame = NoFrame

\* load_NAT(filename, name) on an existing file holding data.
DecodeNAT ==
    /\ call = Idle
    /\ \E data \in NATTexts :
          /\ call' = [op |-> "load_NAT", data |-> data, name |-> None]
          /\ result' = load_NAT(data, None)
    /\ origin' = <<>>
    /\ UNCHANGED <<invoked, pc, frame>>

\* load_NEM(filename, name) on an existing file holding data.
DecodeNEM ==
    /\ call = Idle
    /\ \E data \in NEMTexts :
          /\ call' = [op |-> "load_NEM", data |-> data, name |-> None]
          /\ result' = load_NEM(data, None)
    /\ origin' = <<>>
    /\ UNCHANGED <<invoked, pc, frame>>

\* load_TEC(filename, name) on an existing file holding data.
DecodeTEC ==
    /\ call = Idle
    /\ \E data \in TECTexts :
          /\ call' = [op |-> "load_TEC", data |-> data, name |-> None]
          /\ result' = load_TEC(data, None)
    /\ origin' = <<>>
    /\ UNCHANGED <<invoked, pc, frame>>

\* load_MSH(filename, name) on an existing file holding data.
DecodeMSH ==
    /\ call = Idle
    /\ \E data \in MSHTexts :
          /\ call' = [op |-> "load_MSH", data |-> data, name |-> None]
          /\ result' = load_MSH(data, None)
          /\ origin' = MSH_origin(data)
    /\ UNCHANGED <<invoked, pc, frame>>

\* load_HST(filename, name) on an existing file holding data.
DecodeHST ==
    /\ call = Idle
    /\ \E data \in HSTTexts :
          /\ call' = [op |-> "load_HST", data |-> data, name |-> None]
          /\ result' = load_HST(data, None)
          /\ origin' = HST_origin(data)
    /\ UNCHANGED <<invoked, pc, frame>>

\* load_RAD(filename, name) on an existing file holding data.
DecodeRAD ==
    /\ call = Idle
    /\ \E data \in RADTexts :
          /\ call' = [op |-> "load_RAD", data |-> data, name |-> None]
          /\ result' = load_RAD(data, None)
    /\ origin' = <<>>
    /\ UNCHANGED <<invoked, pc, frame>>

NextDecode ==
    \/ DecodeNAT
    \/ DecodeNEM
    \/ DecodeTEC
    \/ DecodeMSH
    \/ DecodeHST
    \/ DecodeRAD
    \/ Return

SpecDecode == InitDecode /\ [][NextDecode]_vars

(***************************************************************************)
(* Claims on the text decoders (SpecDecode).                               *)
(***************************************************************************)
\* The line after the first line that is the tag alone.
LineAfterTag(data, tag) ==
    data[(CHOOSE i \in 1..Len(data) :
             data[i] = <<tag>> /\ \A j \in 1..(i - 1) : data[j] # <<tag>>) + 1]

\* <<N, M>>: the vertex and face counts the file of a call declares.
DeclaredCounts(c) ==
    CASE c.op = "load_NAT" -> <<c.data[2][1].v, c.data[2][2].v>>
      [] c.op = "load_NEM" -> <<c.data[1][1].v, c.data[2][1].v>>
      [] c.op = "load_TEC" -> <<c.data[1][2].v, c.data[1][3].v>>
      [] c.op = "load_MSH" -> <<LineAfterTag(c.data, NodesTag)[1].v,
                                LineAfterTag(c.data, ElementsTag)[1].v>>

CountCarrying == {"load_NAT", "load_NEM", "load_TEC", "load_MSH"}

\* The lines of the model's GMSH files between a count line and the tag
\* that closes its block.
MSHBlockLines(data, open, close) ==
    LET first == CHOOSE i \in 1..Len(data) : data[i] = <<open>>
        last  == CHOOSE i \in 1..Len(data) : data[i] = <<close>>
    IN  SubSeq(data, first + 2, last - 1)

\* Whether the counts a GMSH file declares are the numbers of lines of its
\* two blocks (the other formats declare nothing else to compare with).
CountsMatchLines(c) ==
    c.op = "load_MSH" =>
        /\ DeclaredCounts(c)[1] = Len(MSHBlockLines(c.data, NodesTag, EndNodesTag))
        /\ DeclaredCounts(c)[2] = Len(MSHBlockLines(c.data, ElementsTag, EndElementsTag))

\* C4 as stated: a count-carrying decoder that returns, returns N vertex
\* rows and M face rows, N and M being the counts its file declares,
\* whatever the element rows are.
C4_RowsAreDeclaredCounts ==
    (call.op \in CountCarrying /\ result.status = "returned" /\ CountsMatchLines(call)) =>
        /\ Len(result.value.vertices) = DeclaredCounts(call)[1]
        /\ Len(result.value.faces) = DeclaredCounts(call)[2]

\* C4, amended: load_NAT, load_NEM and load_TEC return N vertex rows and M
\* face rows; load_MSH returns one vertex row per node line of the $Nodes
\* block and one face row per element line of type 2 or 3 of the $Elements
\* block, whatever the integers after $Nodes and $Elements are.
C4_RowsPerDecoder ==
    (call.op \in CountCarrying /\ result.status = "returned") =>
        IF call.op = "load_MSH"
        THEN /\ Len(result.value.vertices) =
                    Len(MSHBlockLines(call.data, NodesTag, EndNodesTag))
             /\ Len(result.value.faces) =
                    Cardinality({i \in 1..Len(MSHBlockLines(call.data, ElementsTag, EndElementsTag)) :
                        MSHBlockLines(call.data, ElementsTag, EndElementsTag)[i][2].v \in {2, 3}})
        ELSE /\ Len(result.value.vertices) = DeclaredCounts(call)[1]
             /\ Len(result.value.faces) = DeclaredCounts(call)[2]

\* The case of C4: a GMSH file declaring two elements, a point and a
\* triangle, decoded into one face; and a natural-list file decoded into
\* the two vertices and one face it declares.
C4_Witness ==
    /\ call.op = "load_MSH"
    /\ result.status = "returned"
    /\ DeclaredCounts(call) = <<1, 2>>
    /\ Len(MSHBlockLines(call.data, ElementsTag, EndElementsTag)) = 2
    /\ Len(result.value.vertices) = 1
    /\ Len(result.value.faces) = 1

\* C5 as stated: every returned face decoded from a source row of three
\* vertex ids has its 4th entry equal to its 1st.
C5_TrianglesClosed ==
    result.status = "returned" =>
        \A i \in 1..Len(origin) :
            origin[i] = 3 =>
                /\ Len(result.value.faces[i]) = 4
                /\ result.value.faces[i][4] = result.value.faces[i][1]

\* Whether a file holds no node line, no line of reals, no line of integers,
\* no line that is the tag alone.
NoNodeLine(data)   == \A i \in 1..Len(data) : ~ IsNodeLine(data[i])
NoRealLine(data)   == \A i \in 1..Len(data) : ~ IsRealLine(data[i])
NoIntLine(data)    == \A i \in 1..Len(data) : ~ IsIntLine(data[i])
NoTagLine(data, t) == \A i \in 1..Len(data) : data[i] # <<t>>

\* Whether the node region, or the element region, of the file of a call
\* is absent or empty (a TECPLOT zone that declares no element has none to
\* miss).
RegionMissing(c) ==
    CASE c.op \in {"load_HST", "load_RAD"} ->
            NoNodeLine(c.data) \/ NoIntLine(c.data)
      [] c.op = "load_TEC" ->
            \/ NoRealLine(c.data)
            \/ NoIntLine(c.data) /\ IsZoneLine(c.data[1]) /\ c.data[1][3].v > 0
      [] c.op = "load_MSH" ->
            \/ NoTagLine(c.data, NodesTag)
            \/ NoTagLine(c.data, ElementsTag)
            \/ MSHBlockLines(c.data, NodesTag, EndNodesTag) = <<>>
            \/ MSHBlockLines(c.data, ElementsTag, EndElementsTag) = <<>>

SectionDecoders == {"load_RAD", "load_HST", "load_MSH", "load_TEC"}

\* C7 as stated: a section decoder whose node region or element region is
\* absent or empty raises, and returns no mesh.
C7_MissingRegionRaises ==
    (call.op \in SectionDecoders /\ RegionMissing(call)) =>
        result.status = "raised"

(***************************************************************************)
(* load_MAR, line by line (SpecMAR).                                       *)
(***************************************************************************)
MaxMarLines == 5     \* the most lines after the header of a Nemoh file

\* Lines of a Nemoh file: a vertex, a quadrangle, a triangle, the sentinel,
\* a blank line.
MARLines ==
    { <<I(1), R(10), R(11), R(12)>>, <<I(1), I(2), I(3), I(4)>>,
      <<I(1), I(2), I(3)>>, <<I(0), R(0), R(0), R(0)>>, <<>> }

MARHeaders ==
    { <<I(2), I(0)>>, <<I(2), I(1)>>, <<I(2), I(2)>>, <<I(2), R(1)>>, <<I(2)>>,
      <<I(2), I(1), I(0)>> }

\* The empty file, and a header followed by up to MaxMarLines lines.
MARTexts ==
    {<<>>} \cup
    { <<h>> \o body : h \in MARHeaders, body \in SeqsUpTo(MARLines, MaxMarLines) }

\* No line taken for the sentinel.
IsSentinel_never(line) == FALSE

\* line[0] == '0'
IsSentinel(line) == line[1] = I(0)

\* The flag read as any integer but zero.
IsSymmetricFlag_nonzero(tok) == tok.v # 0

\* int(symmetric_mesh) == 1
IsSymmetricFlag(tok) == tok.v = 1

\* ReflectionSymmetricMesh(half_mesh, plane=xOz_Plane, name=name)
ReflectionSymmetricMesh(half_mesh, name) ==
    [cls |-> "ReflectionSymmetricMesh", half_mesh |-> half_mesh,
     plane |-> "xOz_Plane", name |-> name]

\* What load_MAR returns once both tables are read (lines 731-739).
MARReturn(symmetric_mesh, vertices, faces, name) ==
    IF ~ CanInt(symmetric_mesh)
    THEN Raised("ValueError", "invalid literal for int()")
    ELSE IF IsSymmetricFlag(symmetric_mesh)
    THEN IF name = None
         THEN Returned(ReflectionSymmetricMesh(Mesh(vertices, Minus1(faces), None), None))
         ELSE Returned(ReflectionSymmetricMesh(
                 Mesh(vertices, Minus1(faces), "half_of_" \o name), name))
    ELSE Returned(Mesh(vertices, Minus1(faces), name))

InitMAR ==
    /\ call = Idle
    /\ result = Running
    /\ invoked = <<>>
    /\ origin = <<>>
    /\ pc = "idle"
    /\ frame = NoFrame

\* load_MAR(filename, name) is called on an existing file holding data, and
\* opens it.
MARCall ==
    /\ call = Idle
    /\ \E data \in MARTexts, name \in Names :
          call' = [op |-> "load_MAR", data |-> data, name |-> name]
    /\ pc' = "header"
    /\ frame' = [read |-> 0]
    /\ UNCHANGED <<result, invoked, origin>>

\* header = ifile.readline(); _, symmetric_mesh = header.split()
MARHeader ==
    /\ pc = "header"
    /\ LET header == readline(call.data, 1)
       IN  IF Len(header) # 2
           THEN /\ result' = Raised("ValueError", "values to unpack")
                /\ pc' = "done"
                /\ frame' = [read |-> 1]
           ELSE /\ pc' = "vertices"
                /\ frame' = [read |-> 1, symmetric_mesh |-> header[2],
                             vertices |-> <<>>, faces |-> <<>>]
                /\ UNCHANGED result
    /\ UNCHANGED <<call, invoked, origin>>

\* One turn of the first while loop.
MARVertexLine ==
    /\ pc = "vertices"
    /\ LET line == readline(call.data, frame.read + 1)
       IN  IF line = <<>>
           THEN /\ result' = Raised("IndexError", "list index out of range")
                /\ pc' = "done"
                /\ frame' = [frame EXCEPT !.read = @ + 1]
           ELSE IF IsSentinel(line)
           THEN IF ~ Rectangular(frame.vertices)
                THEN /\ result' = Raised("ValueError", "setting an array element with a sequence")
                     /\ pc' = "done"
                     /\ frame' = [frame EXCEPT !.read = @ + 1]
                ELSE /\ pc' = "faces"
                     /\ frame' = [frame EXCEPT !.read = @ + 1]
                     /\ UNCHANGED result
           ELSE IF ~ AllFloat(Tail(line))
           THEN /\ result' = Raised("ValueError", "could not convert string to float")
                /\ pc' = "done"
                /\ frame' = [frame EXCEPT !.read = @ + 1]
           ELSE /\ frame' = [frame EXCEPT !.read = @ + 1,
                                          !.vertices = Append(@, Values(Tail(line)))]
                /\ UNCHANGED <<pc, result>>
    /\ UNCHANGED <<call, invoked, origin>>

\* One turn of the second while loop; on the sentinel, the rest of the
\* function.
MARFaceLine ==
    /\ pc = "faces"
    /\ LET line == readline(call.data, frame.read + 1)
       IN  IF line = <<>>
           THEN /\ result' = Raised("IndexError", "list index out of range")
                /\ pc' = "done"
                /\ frame' = [frame EXCEPT !.read = @ + 1]
           ELSE IF IsSentinel(line)
           THEN /\ pc' = "done"
                /\ frame' = [frame EXCEPT !.read = @ + 1]
                /\ result' = IF ~ Rectangular(frame.faces)
                             THEN Raised("ValueError", "setting an array element with a sequence")
                             ELSE MARReturn(frame.symmetric_mesh, frame.vertices,
                                            frame.faces, call.name)
           ELSE IF ~ AllInt(line)
           THEN /\ result' = Raised("ValueError", "invalid literal for int()")
                /\ pc' = "done"
                /\ frame' = [frame EXCEPT !.read = @ + 1]
           ELSE /\ frame' = [frame EXCEPT !.read = @ + 1,
                                          !.faces = Append(@, Values(line))]
                /\ UNCHANGED <<pc, result>>
    /\ UNCHANGED <<call, invoked, origin>>

NextMAR ==
    \/ MARCall
    \/ MARHeader
    \/ MARVertexLine
    \/ MARFaceLine
    \/ Return

SpecMAR == InitMAR /\ [][NextMAR]_vars

\* The body of load_MAR runs without interruption: a call that has started
\* takes its next step.
FairSpecMAR ==
    SpecMAR /\ WF_vars(MARHeader \/ MARVertexLine \/ MARFaceLine)

(***************************************************************************)
(* Claims on load_MAR (SpecMAR).                                           *)
(***************************************************************************)
\* The lines of the model's files that hold the sentinel.
SentinelLines(data) == {i \in 2..Len(data) : data[i] # <<>> /\ data[i][1] = I(0)}

FirstSentinel(data) ==
    CHOOSE i \in SentinelLines(data) : \A j \in SentinelLines(data) : i <= j

SecondSentinel(data) ==
    CHOOSE i \in SentinelLines(data) \ {FirstSentinel(data)} :
        \A j \in SentinelLines(data) \ {FirstSentinel(data)} : i <= j

\* The rows between two lines, without their first `drop` tokens and
\* lowered by `less`.
RowsBetween(data, from, to, drop, less) ==
    [i \in 1..(to - from - 1) |->
        [j \in 1..(Len(data[from + i]) - drop) |-> data[from + i][j + drop].v - less]]

\* C6: load_MAR returns the reflection-symmetric wrapper, with plane xOz,
\* exactly when the second token of the header is the integer 1, and a flat
\* mesh for any other integer; the (half-)mesh holds the vertex rows read
\* before the first sentinel, nothing more, and the face rows read after it
\* with every index lowered by one.
C6_SymmetryFlag ==
    (call.op = "load_MAR" /\ result.status = "returned") =>
        LET flag == call.data[1][2]
            mesh == IF result.value.cls = "Mesh" THEN result.value
                    ELSE result.value.half_mesh
            s1   == FirstSentinel(call.data)
            s2   == SecondSentinel(call.data)
        IN  /\ flag.k = "i"
            /\ (result.value.cls = "ReflectionSymmetricMesh") <=> (flag.v = 1)
            /\ (result.value.cls = "Mesh") <=> (flag.v # 1)
            /\ result.value.cls = "ReflectionSymmetricMesh" =>
                  /\ result.value.plane = "xOz_Plane"
                  /\ result.value.half_mesh.cls = "Mesh"
            /\ mesh.vertices = RowsBetween(call.data, 1, s1, 1, 0)
            /\ mesh.faces = RowsBetween(call.data, s1, s2, 0, 1)

\* The case of C6: header flag 1, two vertex rows, a sentinel, a face row, a
\* sentinel: the wrapper around a half-mesh of two vertices and one face.
C6_Witness ==
    /\ call.op = "load_MAR"
    /\ result.status = "returned"
    /\ call.data[1] = <<I(2), I(1)>>
    /\ result.value.cls = "ReflectionSymmetricMesh"
    /\ result.value.plane = "xOz_Plane"
    /\ Len(result.value.half_mesh.vertices) = 2
    /\ result.value.half_mesh.faces = <<<<0, 1, 2, 3>>>>

(***************************************************************************)
(* load_INP: the configuration file, the data files it names, and the      *)
(* replay of its directives (SpecINP).                                     *)
(*                                                                         *)
(* A line of the configuration file is its keyword with its options as     *)
(* <<key, value>> pairs; a *FRAME line carries the vector of the line that *)
(* follows it.  Element lines of the data files start with a blank, as     *)
(* elem_line requires.                                                     *)
(***************************************************************************)
MaxDirectives == 4     \* the most *NODE and *ELEMENT lines of a configuration

FrameLine(frame_name, frame_vector) ==
    [type |-> "FRAME", opts |-> <<<<"NAME", frame_name>>>>, vector |-> frame_vector]

Directive(type, opts) == [type |-> type, opts |-> opts, vector |-> <<>>]

FramesText == << FrameLine("F0", <<0, 0, 0>>), FrameLine("F1", <<100, 0, 0>>) >>

Directives ==
    { Directive("NODE", <<<<"INPUT", "A">>, <<"FRAME", "F0">>>>),
      Directive("NODE", <<<<"INPUT", "A">>, <<"INCREMENT", "YES">>, <<"FRAME", "F1">>>>),
      Directive("NODE", <<<<"INPUT", "B">>, <<"FRAME", "F1">>>>),
      Directive("NODE", <<<<"INPUT", "B">>, <<"INCREMENT", "YES">>, <<"FRAME", "F0">>>>),
      Directive("NODE", <<<<"INPUT", "A">>>>),
      Directive("NODE", <<<<"INPUT", "B">>, <<"FRAME", "F9">>>>),
      Directive("ELEMENT", <<<<"INPUT", "A">>>>),
      Directive("ELEMENT", <<<<"INPUT", "B">>>>),
      Directive("ELEMENT", <<<<"INPUT", "D">>>>),
      Directive("ELEMENT", <<<<"INPUT", "M">>>>) }

INPTexts == { FramesText \o lines : lines \in SeqsUpTo(Directives, MaxDirectives) }

\* The data files next to the configuration file: A.DAT has nodes 1 and 2
\* and two element sections, B.DAT the single node 3 and one element
\* section, D.DAT two node sections; there is no M.DAT.
DatFiles == {"A", "B", "D"}

NodeHeader == W(6)
ElementHeader == W(7)

DatText(file) ==
    CASE file = "A" ->
           << <<NodeHeader>>,
              <<I(1), R(10), R(11), R(12)>>, <<I(2), R(20), R(21), R(22)>>,
              <<ElementHeader>>, <<I(1), I(1), I(2), I(1)>>,
              <<ElementHeader>>, <<I(2), I(2), I(1), I(2), I(1)>> >>
      [] file = "B" ->
           << <<NodeHeader>>, <<I(3), R(30), R(31), R(32)>>,
              <<ElementHeader>>, <<I(1), I(3), I(3), I(3)>> >>
      [] OTHER ->
           << <<NodeHeader>>, <<I(1), R(10), R(11), R(12)>>,
              <<NodeHeader>>, <<I(2), R(20), R(21), R(22)>>,
              <<ElementHeader>>, <<I(1), I(1), I(2), I(1)>> >>

\* frames: the last *FRAME line of each name.
ParseFrames(text) ==
    LET at    == {i \in 1..Len(text) : text[i].type = "FRAME"}
        names == {text[i].opts[1][2] : i \in at}
        last(n) == CHOOSE i \in at :
                      /\ text[i].opts[1][2] = n
                      /\ \A j \in at : text[j].opts[1][2] = n => j <= i
    IN  [n \in names |-> text[last(n)].vector]

\* field_dict of a *NODE or *ELEMENT line: its type, INCREMENT = 'NO' for a
\* node line, then every option, a later one over an earlier one.
FieldDict(line) ==
    LET opts == line.opts
        keys == {"type"} \cup (IF line.type = "NODE" THEN {"INCREMENT"} ELSE {})
                         \cup {opts[j][1] : j \in 1..Len(opts)}
        set(k) == {j \in 1..Len(opts) : opts[j][1] = k}
    IN  [k \in keys |->
            IF set(k) # {}
            THEN opts[CHOOSE j \in set(k) : \A i \in set(k) : i <= j][2]
            ELSE IF k = "type" THEN line.type ELSE "NO"]

\* layout: the field_dict of every directive line, in the order of the text.
Layout(text) ==
    LET lines == SelectSeq(text, LAMBDA l : l.type \in {"NODE", "ELEMENT"})
    IN  [i \in 1..Len(lines) |-> FieldDict(lines[i])]

\* The keys of mesh_files in insertion order.
RECURSIVE KeyOrder(_, _)
KeyOrder(layout, seen) ==
    IF layout = <<>> THEN seen
    ELSE KeyOrder(Tail(layout),
            IF \E i \in 1..Len(seen) : seen[i] = Head(layout).INPUT
            THEN seen ELSE Append(seen, Head(layout).INPUT))

\* mesh_files[file][type + '_CALL_INP'] at the end of the first loop.
CallCount(layout, file, type) ==
    Cardinality({i \in 1..Len(layout) : layout[i].INPUT = file /\ layout[i].type = type})

\* elem_line of the data files, r'^ +\d+(?: +\d+){3,4}[\r\n]+'.
IsInpElemLine(line) ==
    /\ Len(line) \in {4, 5}
    /\ \A j \in 1..Len(line) : line[j].k = "i"

\* pattern_elem_section.findall(data): the maximal runs of element lines.
RECURSIVE InpElemSections(_, _, _, _)
InpElemSections(data, q, run, done) ==
    IF q > Len(data)
    THEN IF run = <<>> THEN done ELSE Append(done, run)
    ELSE IF IsInpElemLine(data[q])
    THEN InpElemSections(data, q + 1, Append(run, data[q]), done)
    ELSE InpElemSections(data, q + 1, <<>>,
            IF run = <<>> THEN done ELSE Append(done, run))

Max(S) == CHOOSE m \in S : \A n \in S : n <= m

\* id_new: -1 everywhere, then id_new[idx] = i+1 for each node in turn.
IdNew(idx_array) ==
    [id \in 0..Max({idx_array[i] : i \in 1..Len(idx_array)}) |->
        LET at == {i \in 1..Len(idx_array) : idx_array[i] = id}
        IN  IF at = {} THEN -1 ELSE Max(at)]

\* One element line through id_new; a triangle gets its first node again.
ElemRow(line, id_new) ==
    LET elem == [j \in 1..(Len(line) - 1) |-> id_new[line[j + 1].v]]
    IN  IF Len(elem) = 3 THEN Append(elem, elem[1]) ELSE elem

\* A second node section let through.
SeveralNodeSections_never(node_section) == FALSE

\* len(node_section) > 1
SeveralNodeSections(node_section) == Len(node_section) > 1

\* One turn of the loop over mesh_files: what is stored for the file, and
\* the value the loop variable idx is left with.
ReadDat(file) ==
    IF file \notin DatFiles
    THEN Raised("IOError", "File " \o file \o ".DAT not found")
    ELSE LET data         == DatText(file)
             node_section == NodeSections(data, 1, <<>>, <<>>)
             sections     == InpElemSections(data, 1, <<>>, <<>>)
         IN  IF SeveralNodeSections(node_section)
             THEN Raised("IOError", "Several NODE sections into a .DAT file is not supported")
             ELSE IF node_section = <<>>
             THEN Raised("IndexError", "list index out of range")
             ELSE LET idx_array == [i \in 1..Len(node_section[1]) |-> node_section[1][i][1].v]
                      id_new    == IdNew(idx_array)
                  IN  IF \E k \in 1..Len(sections) : \E i \in 1..Len(sections[k]) :
                            \E j \in 2..Len(sections[k][i]) :
                               sections[k][i][j].v \notin DOMAIN id_new
                      THEN Raised("IndexError", "index out of bounds")
                      ELSE [status |-> "read",
                            NODE_SECTION |-> [i \in 1..Len(node_section[1]) |->
                                                 Tail(Values(node_section[1][i]))],
                            ELEM_SECTIONS |-> [k \in 1..Len(sections) |->
                                                 [i \in 1..Len(sections[k]) |->
                                                     ElemRow(sections[k][i], id_new)]],
                            idx |-> idx_array[Len(idx_array)]]

\* nodes += frames[field['FRAME']]
Translate(nodes, vector) ==
    [i \in 1..Len(nodes) |-> [j \in 1..Len(nodes[i]) |-> nodes[i][j] + vector[j]]]

\* The element section left as stored.
Shift_none(elems, nb_nodes) == elems

\* elems += nb_nodes
Shift(elems, nb_nodes) ==
    [i \in 1..Len(elems) |-> [j \in 1..Len(elems[i]) |-> elems[i][j] + nb_nodes]]

\* The cursor never set back to the first section.
AdvanceCursor_noReset(used, nb_elem_sections) == used + 1

\* nb_elem_sections_used += 1, and back to 0 at nb_elem_sections.
AdvanceCursor(used, nb_elem_sections) ==
    IF used + 1 = nb_elem_sections THEN 0 ELSE used + 1

InitINP ==
    /\ call = Idle
    /\ result = Running
    /\ invoked = <<>>
    /\ origin = <<>>
    /\ pc = "idle"
    /\ frame = NoFrame

\* load_INP(filename, name) is called on an existing configuration file:
\* frames, layout and the keys of mesh_files (lines 206-246).
INPCall ==
    /\ call = Idle
    /\ \E text \in INPTexts, name \in Names :
          /\ call' = [op |-> "load_INP", data |-> text, name |-> name]
          /\ LET lines == SelectSeq(text, LAMBDA l : l.type \in {"NODE", "ELEMENT"})
             IN  IF \E i \in 1..Len(lines) : "INPUT" \notin DOMAIN FieldDict(lines[i])
                 THEN /\ result' = Raised("KeyError", "INPUT")
                      /\ pc' = "done"
                      /\ frame' = NoFrame
                 ELSE LET layout == Layout(text)
                          order  == KeyOrder(layout, <<>>)
                      IN  /\ result' = Running
                          /\ pc' = IF order = <<>> THEN "replay" ELSE "files"
                          /\ frame' =
                               [frames     |-> ParseFrames(text),
                                layout     |-> layout,
                                order      |-> order,
                                mesh_files |->
                                   [f \in {order[i] : i \in 1..Len(order)} |->
                                      [NODE_CALL_INP    |-> CallCount(layout, f, "NODE"),
                                       ELEMENT_CALL_INP |-> CallCount(layout, f, "ELEMENT")]],
                                read       |-> 0,
                                bound      |-> {},
                                idx        |-> 0,
                                pos        |-> 0,
                                nb_nodes   |-> 0,
                                nb_elems   |-> 0,
                                vertices   |-> <<>>,
                                faces      |-> <<>>,
                                increment  |-> FALSE]
    /\ UNCHANGED <<invoked, origin>>

\* One turn of the loop over mesh_files (lines 259-306).
INPReadFile ==
    /\ pc = "files"
    /\ LET file == frame.order[frame.read + 1]
           got  == ReadDat(file)
       IN  IF got.status = "raised"
           THEN /\ result' = got
                /\ pc' = "done"
                /\ frame' = [frame EXCEPT !.read = @ + 1]
           ELSE /\ frame' =
                     [frame EXCEPT
                        !.read = @ + 1,
                        !.idx = got.idx,
                        !.bound = @ \cup {"idx"},
                        !.mesh_files[file] =
                           [NODE_CALL_INP    |-> @.NODE_CALL_INP,
                            ELEMENT_CALL_INP |-> @.ELEMENT_CALL_INP,
                            NODE_SECTION     |-> got.NODE_SECTION,
                            ELEM_SECTIONS    |-> got.ELEM_SECTIONS,
                            nb_elem_sections |-> Len(got.ELEM_SECTIONS),
                            nb_elem_sections_used |-> 0]]
                /\ pc' = IF frame.read + 1 = Len(frame.order) THEN "replay" ELSE "files"
                /\ UNCHANGED result
    /\ UNCHANGED <<call, invoked, origin>>

\* One turn of the replay loop on a *NODE line (lines 311-329).
INPNode ==
    /\ pc = "replay"
    /\ frame.pos < Len(frame.layout)
    /\ frame.layout[frame.pos + 1].type = "NODE"
    /\ LET field == frame.layout[frame.pos + 1]
           file  == field.INPUT
           stop(exc, msg) ==
              /\ result' = Raised(exc, msg)
              /\ pc' = "done"
              /\ frame' = [frame EXCEPT !.pos = @ + 1]
       IN  IF "FRAME" \notin DOMAIN field
           THEN stop("KeyError", "FRAME")
           ELSE IF field.FRAME \notin DOMAIN frame.frames
           THEN stop("KeyError", field.FRAME)
           ELSE LET nodes == Translate(frame.mesh_files[file].NODE_SECTION,
                                       frame.frames[field.FRAME])
                IN  IF frame.nb_nodes = 0
                    THEN /\ frame' = [frame EXCEPT !.pos = @ + 1,
                                         !.vertices = nodes,
                                         !.nb_nodes = Len(nodes),
                                         !.increment = FALSE,
                                         !.bound = @ \cup {"vertices", "increment"}]
                         /\ UNCHANGED <<pc, result>>
                    ELSE IF field.INCREMENT = "NO"
                    THEN \* vertices[idx, :] = nodes.copy(), idx left by the
                         \* loop over the nodes of the last data file
                         IF frame.idx >= Len(frame.vertices)
                         THEN stop("IndexError", "index out of bounds for axis 0")
                         ELSE IF Len(nodes) # 1
                         THEN stop("ValueError", "could not broadcast input array")
                         ELSE /\ frame' = [frame EXCEPT !.pos = @ + 1,
                                              !.vertices[frame.idx + 1] = nodes[1],
                                              !.increment = FALSE]
                              /\ UNCHANGED <<pc, result>>
                    ELSE /\ frame' = [frame EXCEPT !.pos = @ + 1,
                                         !.vertices = @ \o nodes,
                                         !.nb_nodes = Len(frame.vertices \o nodes),
                                         !.increment = TRUE]
                         /\ UNCHANGED <<pc, result>>
    /\ UNCHANGED <<call, invoked, origin>>

\* One turn of the replay loop on an *ELEMENT line (lines 330-349).  origin
\* records the section each such line took.
INPElement ==
    /\ pc = "replay"
    /\ frame.pos < Len(frame.layout)
    /\ frame.layout[frame.pos + 1].type = "ELEMENT"
    /\ LET file  == frame.layout[frame.pos + 1].INPUT
           entry == frame.mesh_files[file]
           used  == entry.nb_elem_sections_used
           next  == AdvanceCursor(used, entry.nb_elem_sections)
       IN  IF used >= Len(entry.ELEM_SECTIONS)
           THEN /\ result' = Raised("IndexError", "list index out of range")
                /\ pc' = "done"
                /\ frame' = [frame EXCEPT !.pos = @ + 1]
                /\ UNCHANGED origin
           ELSE /\ origin' = Append(origin, [file |-> file, section |-> used])
                /\ IF "increment" \notin frame.bound
                   THEN /\ result' = Raised("UnboundLocalError", "increment")
                        /\ pc' = "done"
                        /\ frame' = [frame EXCEPT !.pos = @ + 1,
                                        !.mesh_files[file].nb_elem_sections_used = next]
                   ELSE LET elem_section == entry.ELEM_SECTIONS[used + 1]
                            elems == IF frame.increment
                                     THEN Shift(elem_section, frame.nb_nodes)
                                     ELSE elem_section
                            faces == IF frame.nb_elems = 0 THEN elems
                                     ELSE frame.faces \o elems
                        IN  /\ frame' = [frame EXCEPT !.pos = @ + 1,
                                            !.mesh_files[file].nb_elem_sections_used = next,
                                            !.faces = faces,
                                            !.nb_elems = Len(faces),
                                            !.bound = @ \cup {"faces"}]
                            /\ UNCHANGED <<pc, result>>
    /\ UNCHANGED <<call, invoked>>

\* return Mesh(vertices, faces-1, name) (line 351).
INPReturn ==
    /\ pc = "replay"
    /\ frame.pos = Len(frame.layout)
    /\ result' = IF "vertices" \notin frame.bound
                 THEN Raised("UnboundLocalError", "vertices")
                 ELSE IF "faces" \notin frame.bound
                 THEN Raised("UnboundLocalError", "faces")
                 ELSE Returned(Mesh(frame.vertices, Minus1(frame.faces), call.name))
    /\ pc' = "done"
    /\ UNCHANGED <<call, invoked, origin, frame>>

NextINP ==
    \/ INPCall
    \/ INPReadFile
    \/ INPNode
    \/ INPElement
    \/ INPReturn
    \/ Return

SpecINP == InitINP /\ [][NextINP]_vars

(***************************************************************************)
(* Claims on load_INP (SpecINP).                                           *)
(***************************************************************************)
\* Every element row of the data file names nodes of its node section only.
RefsPresent(file) ==
    LET data == DatText(file)
        ids  == {data[i][1].v : i \in {q \in 1..Len(data) : IsNodeLine(data[q])}}
    IN  \A q \in 1..Len(data) :
           IsInpElemLine(data[q]) => \A j \in 2..Len(data[q]) : data[q][j].v \in ids

\* Well-formed input: the element rows name present nodes, and every
\* *ELEMENT line comes after a *NODE line of the same data file.
WellFormedLayout(layout) ==
    /\ \A i \in 1..Len(layout) :
          layout[i].INPUT \in DatFiles /\ RefsPresent(layout[i].INPUT)
    /\ \A i \in 1..Len(layout) :
          layout[i].type = "ELEMENT" =>
             \E j \in 1..(i - 1) :
                layout[j].type = "NODE" /\ layout[j].INPUT = layout[i].INPUT

\* C8: on well-formed input, every index of the face table load_INP returns
\* is a row of the vertex table it returns, that is lies in 0..N-1, also
\* after *NODE lines that append.
C8_FacesInRange ==
    (call.op = "load_INP" /\ result.status = "returned"
        /\ WellFormedLayout(frame.layout)) =>
        \A i \in 1..Len(result.value.faces) : \A j \in 1..4 :
           result.value.faces[i][j] \in 0..(Len(result.value.vertices) - 1)

\* The *ELEMENT lines among the first n directives that name the file.
ElementLinesOf(layout, n, file) ==
    {i \in 1..n : layout[i].type = "ELEMENT" /\ layout[i].INPUT = file}

\* Every data file of the configuration has been read and stored.
AllFilesRead ==
    /\ frame # NoFrame
    /\ \A f \in DOMAIN frame.mesh_files :
          "nb_elem_sections" \in DOMAIN frame.mesh_files[f]

\* C9: the k-th *ELEMENT line (k = 0, 1, ...) naming a data file with S >= 1
\* element sections takes the file's section k mod S, whatever the lines
\* naming other files; the file's cursor nb_elem_sections_used stays in
\* 0..S-1, and no *ELEMENT line indexes past the last section.
C9_RoundRobin ==
    (call.op = "load_INP" /\ AllFilesRead) =>
        /\ \A j \in 1..Len(origin) :
              LET S == frame.mesh_files[origin[j].file].nb_elem_sections
                  k == Cardinality({i \in 1..(j - 1) : origin[i].file = origin[j].file})
              IN  S >= 1 => origin[j].section = k % S
        /\ \A f \in DOMAIN frame.mesh_files :
              LET S == frame.mesh_files[f].nb_elem_sections
              IN  S >= 1 =>
                    /\ frame.mesh_files[f].nb_elem_sections_used \in 0..(S - 1)
                    /\ Cardinality({j \in 1..Len(origin) : origin[j].file = f})
                          = Cardinality(ElementLinesOf(frame.layout, frame.pos, f))

\* The case of C9: with A.DAT (two sections) and B.DAT (one), the lines
\* ELEMENT A, ELEMENT B, ELEMENT A have taken A's section 0, B's section 0
\* and A's section 1, and A's cursor is back at 0.
C9_Witness ==
    /\ call.op = "load_INP"
    /\ result.status = "returned"
    /\ origin = << [file |-> "A", section |-> 0], [file |-> "B", section |-> 0],
                   [file |-> "A", section |-> 1] >>
    /\ frame.mesh_files["A"].nb_elem_sections = 2
    /\ frame.mesh_files["A"].nb_elem_sections_used = 0

\* The state is about to replay a *NODE line that does not increment, names
\* a defined frame, and finds the vertex table non-empty.
AtOverwritingNode ==
    /\ call.op = "load_INP"
    /\ pc = "replay"
    /\ frame.pos < Len(frame.layout)
    /\ frame.layout[frame.pos + 1].type = "NODE"
    /\ frame.layout[frame.pos + 1].INCREMENT = "NO"
    /\ "FRAME" \in DOMAIN frame.layout[frame.pos + 1]
    /\ frame.layout[frame.pos + 1].FRAME \in DOMAIN frame.frames
    /\ frame.nb_nodes > 0

\* C10: a *NODE line that does not increment and finds the vertex table
\* non-empty writes each translated node of its data file at the position
\* the file records for it (node id i at row i - 1), and leaves the number
\* of vertices, every other row and the face table as they were.
C10_OverwriteInPlace ==
    [][ (AtOverwritingNode /\ frame' # frame) =>
          LET field == frame.layout[frame.pos + 1]
              data  == DatText(field.INPUT)
              rows  == SelectSeq(data, IsNodeLine)
              ids   == {rows[i][1].v : i \in 1..Len(rows)}
              nodes == Translate(frame.mesh_files[field.INPUT].NODE_SECTION,
                                 frame.frames[field.FRAME])
          IN  /\ result' = Running
              /\ Len(frame'.vertices) = Len(frame.vertices)
              /\ frame'.nb_nodes = frame.nb_nodes
              /\ frame'.faces = frame.faces
              /\ \A i \in 1..Len(rows) :
                    rows[i][1].v \in 1..Len(frame.vertices) =>
                       frame'.vertices[rows[i][1].v] = nodes[i]
              /\ \A r \in 1..Len(frame.vertices) :
                    r \notin ids => frame'.vertices[r] = frame.vertices[r]
      ]_vars

\* The *NODE lines among the first n directives.
NodeLinesBefore(layout, n) == {i \in 1..n : layout[i].type = "NODE"}

\* The most recent *NODE line among the first n directives appended to a
\* non-empty vertex table: it asks for an increment and is not the first.
LastNodeIncremented(layout, n) ==
    /\ NodeLinesBefore(layout, n) # {}
    /\ LET last == Max(NodeLinesBefore(layout, n))
       IN  /\ layout[last].INCREMENT # "NO"
           /\ NodeLinesBefore(layout, last - 1) # {}

\* The state is about to replay an *ELEMENT line, and the step that follows
\* appends its section.
ElementAppended ==
    /\ call.op = "load_INP"
    /\ pc = "replay"
    /\ frame.pos < Len(frame.layout)
    /\ frame.layout[frame.pos + 1].type = "ELEMENT"
    /\ frame' # frame
    /\ result' = Running

\* C11: the rows an *ELEMENT line appends to the face table are the rows of
\* the section it takes, each index raised by the running vertex offset
\* nb_nodes if the most recent *NODE line before it appended to a non-empty
\* table, and unchanged otherwise (after the first *NODE line or one that
\* does not increment); the stored sections are never changed, so a section
\* taken again is shifted once, not cumulatively.
C11_ShiftIffIncremented ==
    [][ ElementAppended =>
          LET file    == frame.layout[frame.pos + 1].INPUT
              entry   == frame.mesh_files[file]
              section == entry.ELEM_SECTIONS[entry.nb_elem_sections_used + 1]
              shift   == IF LastNodeIncremented(frame.layout, frame.pos)
                         THEN frame.nb_nodes ELSE 0
              before  == IF frame.nb_elems = 0 THEN <<>> ELSE frame.faces
          IN  /\ frame'.faces = before \o
                    [i \in 1..Len(section) |->
                        [j \in 1..4 |-> section[i][j] + shift]]
              /\ \A f \in DOMAIN frame.mesh_files :
                    frame'.mesh_files[f].ELEM_SECTIONS = frame.mesh_files[f].ELEM_SECTIONS
              /\ frame'.nb_nodes = frame.nb_nodes
      ]_vars

\* The case of C11: NODE B, NODE B with INCREMENT=YES (two vertices), then
\* ELEMENT B twice: B.DAT's one section [1, 1, 1, 1] is taken on two passes
\* and both times appended as [3, 3, 3, 3].
C11_Witness ==
    /\ call.op = "load_INP"
    /\ pc = "replay"
    /\ frame.nb_nodes = 2
    /\ frame.increment
    /\ origin = << [file |-> "B", section |-> 0], [file |-> "B", section |-> 0] >>
    /\ frame.faces = << <<3, 3, 3, 3>>, <<3, 3, 3, 3>> >>
    /\ frame.mesh_files["B"].ELEM_SECTIONS = << << <<1, 1, 1, 1>> >> >>

(***************************************************************************)
(* Claim on load_HST with several sections (SpecDecode).                   *)
(***************************************************************************)
\* C12: load_HST on a file with k >= 1 node sections and j >= 1 element
\* sections returns the rows of the k node sections, in file order and once
\* each, as its vertex table, and the rows of the j element sections, in
\* file order, once each and lowered by one, as its face table, for k > 1
\* and j > 1 as for single sections.
C12_SectionsConcatenated ==
    (call.op = "load_HST"
        /\ NodeSections(call.data, 1, <<>>, <<>>) # <<>>
        /\ ElemSections(call.data, 1, 4, <<>>, <<>>) # <<>>) =>
        LET nodes == Flatten(NodeSections(call.data, 1, <<>>, <<>>))
            elems == Flatten(ElemSections(call.data, 1, 4, <<>>, <<>>))
        IN  /\ result.status = "returned"
            /\ result.value.vertices = [i \in 1..Len(nodes) |-> Tail(Values(nodes[i]))]
            /\ result.value.faces = Minus1([i \in 1..Len(elems) |-> elems[i].ids])

(***************************************************************************)
(* Claim on the failures of load_INP (SpecINP).                            *)
(***************************************************************************)
FileAbsent(file) == file \notin DatFiles

FileMalformed(file) ==
    file \in DatFiles /\ Len(NodeSections(DatText(file), 1, <<>>, <<>>)) > 1

\* The *NODE line names no frame, or a frame no *FRAME line declares.
FrameMissing(text, field) ==
    /\ field.type = "NODE"
    /\ \/ "FRAME" \notin DOMAIN field
       \/ field.FRAME \notin DOMAIN ParseFrames(text)

FileNotFoundRaised ==
    /\ result.status = "raised"
    /\ result.exc = "IOError"
    /\ \E f \in {"A", "B", "D", "M"} : result.msg = "File " \o f \o ".DAT not found"

MalformedSectionRaised ==
    /\ result.status = "raised"
    /\ result.exc = "IOError"
    /\ result.msg = "Several NODE sections into a .DAT file is not supported"

MissingFrameRaised == result.status = "raised" /\ result.exc = "KeyError"

\* load_INP has come to its end, with a mesh or an exception.
INPDone == call.op = "load_INP" /\ pc = "done"

\* C13, as stated: load_INP fails with file-not-found when any named data
\* file is absent, with malformed-section when a data file has more than
\* one node section, with missing-frame when a *NODE line names no declared
\* frame; the two data-file errors come before any directive is replayed.
C13_ErrorPerDefect ==
    INPDone =>
        LET layout == Layout(call.data)
        IN  /\ (\E i \in 1..Len(layout) : FileAbsent(layout[i].INPUT)) =>
                  FileNotFoundRaised /\ frame.pos = 0
            /\ (\E i \in 1..Len(layout) : FileMalformed(layout[i].INPUT)) =>
                  MalformedSectionRaised /\ frame.pos = 0
            /\ (\E i \in 1..Len(layout) : FrameMissing(call.data, layout[i])) =>
                  MissingFrameRaised

\* C13, amended: load_INP returns no mesh in each of the three cases.  The
\* data files are read in the order of their first mention, before any
\* directive is replayed, and the first defective one decides the error:
\* file-not-found if it is absent, malformed-section if it has several node
\* sections.  With every data file sound, missing-frame is raised when the
\* replay comes to the first *NODE line without a declared frame, unless an
\* earlier directive has failed.
C13_FirstDefectDecides ==
    INPDone =>
        LET layout == Layout(call.data)
            order  == KeyOrder(layout, <<>>)
            bad    == {q \in 1..Len(order) :
                          FileAbsent(order[q]) \/ FileMalformed(order[q])}
            noframe == {i \in 1..Len(layout) : FrameMissing(call.data, layout[i])}
        IN  IF bad # {}
            THEN LET first == order[CHOOSE q \in bad : \A p \in bad : q <= p]
                 IN  /\ frame.pos = 0
                     /\ origin = <<>>
                     /\ "vertices" \notin frame.bound
                     /\ FileAbsent(first) =>
                           /\ FileNotFoundRaised
                           /\ result.msg = "File " \o first \o ".DAT not found"
                     /\ FileMalformed(first) => MalformedSectionRaised
            ELSE noframe # {} =>
                    LET m == CHOOSE i \in noframe : \A j \in noframe : i <= j
                    IN  /\ result.status = "raised"
                        /\ frame.pos <= m
                        /\ frame.pos = m => MissingFrameRaised

\* The case of C13: D.DAT (two node sections) is named before the absent
\* M.DAT; the call fails with malformed-section before any replay.
C13_Witness ==
    /\ INPDone
    /\ frame.order = <<"D", "M">>
    /\ MalformedSectionRaised
    /\ frame.pos = 0

(***************************************************************************)
(* Claim on the termination of load_MAR (FairSpecMAR).                     *)
(***************************************************************************)
BlankLines(data) == {i \in 2..Len(data) : data[i] = <<>>}

\* The line at which the two loops can read no further: the first blank
\* line, the second sentinel, or the end of the file.
StopLine(data) ==
    LET stops == BlankLines(data) \cup {Len(data) + 1} \cup
                 (IF Cardinality(SentinelLines(data)) >= 2
                  THEN {SecondSentinel(data)} ELSE {})
    IN  CHOOSE i \in stops : \A j \in stops : i <= j

\* Both sentinels are in the file, with no blank line before the second.
BothSentinels(data) ==
    /\ Cardinality(SentinelLines(data)) >= 2
    /\ StopLine(data) = SecondSentinel(data)

MARReadsBounded ==
    call.op = "load_MAR" =>
        /\ frame.read <= (IF call.data = <<>> THEN 1 ELSE StopLine(call.data))
        /\ pc = "faces" =>
              /\ SentinelLines(call.data) # {}
              /\ frame.read >= FirstSentinel(call.data)
              /\ Len(frame.vertices) = FirstSentinel(call.data) - 2
        /\ result.status = "returned" =>
              /\ BothSentinels(call.data)
              /\ frame.read = SecondSentinel(call.data)
              /\ Len(frame.faces) = SecondSentinel(call.data) - FirstSentinel(call.data) - 1
        /\ (pc = "done" /\ (call.data = <<>> \/ ~ BothSentinels(call.data))) =>
              result.status = "raised"

\* C14: every call of load_MAR comes to its end; it reads vertex rows up to
\* the first line whose first token is 0, then face rows up to the next
\* such line, and no line after it; when the file ends or a blank line comes
\* before either sentinel, the call raises and returns no mesh.
C14_Terminates ==
    /\ [] MARReadsBounded
    /\ (call.op = "load_MAR") ~> (pc = "done")

\* The case of C14: a vertex row and the first sentinel are read, then the
\* file ends before a second sentinel: the call ends with IndexError on the
\* read past the last line.
C14_Witness ==
    /\ call.op = "load_MAR"
    /\ pc = "done"
    /\ result.status = "raised"
    /\ result.exc = "IndexError"
    /\ Cardinality(SentinelLines(call.data)) = 1
    /\ BlankLines(call.data) = {}
    /\ Len(frame.vertices) >= 1
    /\ frame.read = Len(call.data) + 1

=============================================================================
